---- MODULE Spec2Model ----
\* aws-cli-federator: the command line pipeline of main.go (configuration,
\* account match, authentication, role resolution, AssumeRole) and the upsert
\* of the temporary credentials into ~/.aws/credentials.
EXTENDS Integers, Sequences, FiniteSets, TLC

\* ---------------------------------------------------------------- bounds
\* longest role list GetRoles returns
MaxRoles == 3
\* longest line typed at the "Enter the ID#" prompt, in characters
MaxInputLen == 2
\* number of WriteAWSCredentials calls in a row (SpecStore)
MaxCalls == 2

\* ---------------------------------------------------------------- values
ArnAdmin == "arn:aws:iam::111:role/Admin"
ArnRead == "arn:aws:iam::222:role/ReadOnly"
ArnGone == "arn:aws:iam::111:role/Gone"
\* the roles the identity provider can authorize
Arns == {ArnAdmin, ArnRead}
\* the zero value of federator.Role
NoRole == ""
RoleLists == UNION {[1..n -> Arns] : n \in 0..MaxRoles}

Profiles == {"default", "work"}
ManagedKeys == {"aws_access_key_id", "aws_secret_access_key", "aws_session_token"}
Creds1 == [AccessKeyId |-> "AK1", SecretAccessKey |-> "SK1", SessionToken |-> "T1"]
Creds2 == [AccessKeyId |-> "AK2", SecretAccessKey |-> "SK2", SessionToken |-> "T2"]
CredsSet == {Creds1, Creds2}
NoCreds == [AccessKeyId |-> "", SecretAccessKey |-> "", SessionToken |-> ""]

\* ------------------------------------------------- the credentials document
\* The file on disk is a list of lines: <<"sec", name>> is a section header
\* "[name]", <<"kv", k, v>> is "k = v", <<"bad">> is a line that does not parse.
\* In memory (ini.File) a document is a list of sections, each a name and an
\* ordered list of keys; the first section is always DEFAULT.
Missing == [exists |-> FALSE, lines |-> <<>>]
File(lines) == [exists |-> TRUE, lines |-> lines]

EmptyDoc == <<[name |-> "DEFAULT", keys |-> <<>>]>>

SecIndex(doc, name) ==
  IF \E i \in 1..Len(doc) : doc[i].name = name
  THEN CHOOSE i \in 1..Len(doc) : doc[i].name = name /\ \A j \in 1..(i-1) : doc[j].name # name
  ELSE 0

\* cfg.GetSection(name): 0 stands for the "section does not exist" error
GetSection(doc, name) == SecIndex(doc, IF name = "" THEN "DEFAULT" ELSE name)

\* cfg.NewSection(name): an existing section is returned as it is
NewSection(doc, name) ==
  IF name = "" THEN [err |-> TRUE, doc |-> doc]
  ELSE IF SecIndex(doc, name) # 0 THEN [err |-> FALSE, doc |-> doc]
  ELSE [err |-> FALSE, doc |-> Append(doc, [name |-> name, keys |-> <<>>])]

KeyIndex(keys, k) ==
  IF \E i \in 1..Len(keys) : keys[i].k = k
  THEN CHOOSE i \in 1..Len(keys) : keys[i].k = k /\ \A j \in 1..(i-1) : keys[j].k # k
  ELSE 0

NewKeyDup(keys, k, v) ==
  IF k = "" THEN [err |-> TRUE, keys |-> keys]
  ELSE [err |-> FALSE, keys |-> Append(keys, [k |-> k, v |-> v])]

\* prof.NewKey(k, v): create the key, or overwrite its value where it stands
NewKey(keys, k, v) ==
  IF k = "" THEN [err |-> TRUE, keys |-> keys]
  ELSE IF KeyIndex(keys, k) # 0
  THEN [err |-> FALSE, keys |-> [keys EXCEPT ![KeyIndex(keys, k)].v = v]]
  ELSE [err |-> FALSE, keys |-> Append(keys, [k |-> k, v |-> v])]

RECURSIVE ParseLines(_, _, _)
\* the parser of ini.Load: a header opens (or reopens) a section, a key line
\* sets the key in the section that is open
ParseLines(lines, doc, cur) ==
  IF lines = <<>> THEN [err |-> FALSE, doc |-> doc]
  ELSE LET ln == Head(lines) IN
    IF ln[1] = "sec"
    THEN LET ns == NewSection(doc, ln[2]) IN
         IF ns.err THEN [err |-> TRUE, doc |-> doc]
         ELSE ParseLines(Tail(lines), ns.doc, ln[2])
    ELSE IF ln[1] = "kv"
    THEN LET i == SecIndex(doc, cur)
             nk == NewKey(doc[i].keys, ln[2], ln[3]) IN
         IF nk.err THEN [err |-> TRUE, doc |-> doc]
         ELSE ParseLines(Tail(lines), [doc EXCEPT ![i].keys = nk.keys], cur)
    ELSE [err |-> TRUE, doc |-> doc]

\* ini.Load(cpath): a missing file and a file that does not parse are errors
Load(disk) ==
  IF ~disk.exists THEN [err |-> TRUE, doc |-> EmptyDoc]
  ELSE ParseLines(disk.lines, EmptyDoc, "DEFAULT")

RECURSIVE KeyLines(_)
KeyLines(keys) ==
  IF keys = <<>> THEN <<>>
  ELSE <<(<<"kv", Head(keys).k, Head(keys).v>>)>> \o KeyLines(Tail(keys))

RECURSIVE SectionLines(_, _)
\* the text cfg.SaveTo writes: the sections in order, the header of the
\* leading DEFAULT section left out
SectionLines(doc, i) ==
  IF i > Len(doc) THEN <<>>
  ELSE (IF i = 1 THEN <<>> ELSE <<(<<"sec", doc[i].name>>)>>)
       \o KeyLines(doc[i].keys) \o SectionLines(doc, i + 1)

Serialize(doc) == SectionLines(doc, 1)

\* What can go wrong in a call: nothing; user.Current() fails; the file cannot
\* be opened for writing (it is left as it was); the write stops after n lines of the new
\* text (the file was truncated when it was opened).
Faults(lines) ==
  {[kind |-> "none", n |-> 0], [kind |-> "nouser", n |-> 0], [kind |-> "open", n |-> 0]}
  \cup {[kind |-> "short", n |-> j] : j \in 0..(Len(lines) - 1)}

\* cfg.SaveTo(path)
SaveTo(doc, disk, fault) ==
  LET text == Serialize(doc) IN
  IF fault.kind = "none" THEN [err |-> FALSE, disk |-> File(text)]
  ELSE IF fault.kind = "open" THEN [err |-> TRUE, disk |-> disk]
  ELSE [err |-> TRUE, disk |-> File(SubSeq(text, 1, fault.n))]

UpsertedFresh(doc, c, p) ==
  LET ns == IF GetSection(doc, p) = 0 THEN NewSection(doc, p)
            ELSE [err |-> FALSE, doc |-> doc] IN
  IF ns.err THEN [err |-> "create", doc |-> doc]
  ELSE LET i == GetSection(ns.doc, p) IN
    IF i = 0 THEN [err |-> "retrieve", doc |-> doc]
    ELSE LET k1 == NewKey(<<>>, "aws_access_key_id", c.AccessKeyId)
             k2 == NewKey(k1.keys, "aws_secret_access_key", c.SecretAccessKey)
             k3 == NewKey(k2.keys, "aws_session_token", c.SessionToken) IN
      IF k1.err \/ k2.err \/ k3.err THEN [err |-> "key", doc |-> doc]
      ELSE [err |-> "", doc |-> [ns.doc EXCEPT ![i].keys = k3.keys]]

\* the document WriteAWSCredentials holds in memory just before it saves
\* (main.go 247-271); err is "" when every step succeeded
Upserted(doc, c, p) ==
  LET ns == IF GetSection(doc, p) = 0 THEN NewSection(doc, p)
            ELSE [err |-> FALSE, doc |-> doc] IN
  IF ns.err THEN [err |-> "create", doc |-> doc]
  ELSE LET i == GetSection(ns.doc, p) IN
    IF i = 0 THEN [err |-> "retrieve", doc |-> doc]
    ELSE LET k1 == NewKey(ns.doc[i].keys, "aws_access_key_id", c.AccessKeyId)
             k2 == NewKey(k1.keys, "aws_secret_access_key", c.SecretAccessKey)
             k3 == NewKey(k2.keys, "aws_session_token", c.SessionToken) IN
      IF k1.err \/ k2.err \/ k3.err THEN [err |-> "key", doc |-> doc]
      ELSE [err |-> "", doc |-> [ns.doc EXCEPT ![i].keys = k3.keys]]

\* the save faults possible for a call on this disk
CallFaults(disk, c, p) ==
  IF Load(disk).err THEN {[kind |-> "none", n |-> 0], [kind |-> "nouser", n |-> 0]}
  ELSE Faults(Serialize(Upserted(Load(disk).doc, c, p).doc))

\* WriteAWSCredentials(c, p): the error it returns ("" for nil) and the file
\* it leaves behind
WriteAWSCredentials(disk, c, p, fault) ==
  LET ld == Load(disk) IN
  IF fault.kind = "nouser" THEN [err |-> "user", disk |-> disk]
  ELSE IF ld.err THEN [err |-> "load", disk |-> disk]
  ELSE LET up == Upserted(ld.doc, c, p) IN
    IF up.err # "" THEN [err |-> up.err, disk |-> disk]
    ELSE LET sv == SaveTo(up.doc, disk, fault) IN
      [err |-> IF sv.err THEN "save" ELSE "", disk |-> sv.disk]

\* the credentials files a run of main may find
PipelineDisks ==
  { Missing,
    File(<< <<"sec", "default">>, <<"kv", "aws_access_key_id", "old">>,
            <<"kv", "region", "us-east-1">>, <<"kv", "aws_session_token", "old">>,
            <<"sec", "other">>, <<"kv", "aws_access_key_id", "theirs">> >>) }

\* the credentials files a call of WriteAWSCredentials may find
InitialDisks ==
  PipelineDisks \cup
  { File(<<>>),
    File(<< <<"sec", "default">>, <<"kv", "region", "us-east-1">> >>),
    File(<< <<"kv", "output", "json">>,
            <<"sec", "work">>, <<"kv", "aws_secret_access_key", "old">>,
            <<"sec", "other">>, <<"kv", "region", "eu-west-1">>,
            <<"sec", "work">>, <<"kv", "region", "eu-west-1">> >>),
    File(<< <<"sec", "default">>, <<"bad">> >>) }

\* ------------------------------------------------- the configuration file
URL == "https://idp.example/sso"
NoKeys == [k \in {} |-> ""]
HasKey(sec, k) == k \in DOMAIN sec

\* the sections of ~/.aws/federatedcli; ini.Load always adds DEFAULT
Accounts ==
  ("DEFAULT" :> NoKeys)
  @@ ("default" :> (("sp_identity_url" :> URL) @@ ("username" :> "u") @@ ("password" :> "p")))
  @@ ("pinned" :> (("sp_identity_url" :> URL) @@ ("assume_role" :> ArnAdmin)))
  @@ ("stale" :> (("sp_identity_url" :> URL) @@ ("username" :> "u") @@ ("password" :> "p")
                  @@ ("assume_role" :> ArnGone)))
  @@ ("blank" :> (("sp_identity_url" :> URL) @@ ("username" :> "u") @@ ("password" :> "p")
                  @@ ("assume_role" :> "")))
  @@ ("nourl" :> ("username" :> "u"))
WithAccountMap == Accounts @@ ("account_map" :> ("111" :> "Acme-Prod"))
\* a configuration file that is missing or does not parse
Unloadable == ("unloadable" :> NoKeys)
ConfigFiles == {Accounts, WithAccountMap, Unloadable}
\* the values of -account / -acct on the command line
AccountFlags == {"", "pinned", "stale", "blank", "nourl", "nosuch"}

\* c.matchAccount(): the section whose name is c.account
matchAccount(cfg, account) ==
  IF account \in DOMAIN cfg THEN [found |-> TRUE, name |-> account]
  ELSE [found |-> FALSE, name |-> ""]

\* ------------------------------------------------------------- the roles
\* federator.Role accessors on the ARN arn:aws:iam::<account-id>:role/<name>
AccountId(r) == IF r = ArnRead THEN "222" ELSE "111"
RoleName(r) == IF r = ArnAdmin THEN "Admin" ELSE IF r = ArnRead THEN "ReadOnly" ELSE "Gone"
RoleArn(r) == r

\* ---------------------------------------------- the selection typed at the prompt
Digits == {"0", "1", "2", "3", "4"}
InputChars == Digits \cup {"-", "x"}
Inputs == UNION {[1..n -> InputChars] : n \in 0..MaxInputLen}
DigitVal(ch) == CASE ch = "0" -> 0 [] ch = "1" -> 1 [] ch = "2" -> 2 [] ch = "3" -> 3 [] OTHER -> 4

RECURSIVE LeadingDigits(_)
LeadingDigits(s) ==
  IF s # <<>> /\ Head(s) \in Digits THEN <<Head(s)>> \o LeadingDigits(Tail(s)) ELSE <<>>

RECURSIVE DecimalValue(_, _)
DecimalValue(ds, acc) ==
  IF ds = <<>> THEN acc ELSE DecimalValue(Tail(ds), 10 * acc + DigitVal(Head(ds)))

\* fmt.Scanf("%d", &i): an optional sign, then the digits up to the first
\* character that is no digit; no digit at all is an error
ScanInt(s) ==
  LET neg == s # <<>> /\ Head(s) = "-"
      ds == LeadingDigits(IF neg THEN Tail(s) ELSE s) IN
  IF ds = <<>> THEN [err |-> TRUE, val |-> 0]
  ELSE [err |-> FALSE, val |-> IF neg THEN 0 - DecimalValue(ds, 0) ELSE DecimalValue(ds, 0)]

\* ------------------------------------------------------- role resolution
\* aws.GetRoles(): the authorized roles, or no role with an error
GetRolesResult(ok, rs) == IF ok THEN rs ELSE <<>>

ScanRolesFirst(roles, want) ==
  IF roles # <<>> THEN roles[1] ELSE NoRole

\* main.go 166-171: the first role equal to the configured assume_role
ScanRoles(roles, want) ==
  IF \E i \in 1..Len(roles) : roles[i] = want
  THEN roles[CHOOSE i \in 1..Len(roles) : roles[i] = want /\ \A j \in 1..(i-1) : roles[j] # want]
  ELSE NoRole

\* main.go 181-195: the numbered menu, one line per role in list order
MenuLines(cfg, roles) ==
  [n \in 1..Len(roles) |->
     IF "account_map" \in DOMAIN cfg /\ HasKey(cfg["account_map"], AccountId(roles[n]))
     THEN [id |-> n, text |-> <<cfg["account_map"][AccountId(roles[n])], ":role/", RoleName(roles[n])>>,
           role |-> roles[n]]
     ELSE [id |-> n, text |-> <<RoleArn(roles[n])>>, role |-> roles[n]]]

Resolution(out, role, read, menu) == [out |-> out, role |-> role, read |-> read, menu |-> menu]

SelectRoleShifted(roles, i) ==
  IF i > Len(roles) + 1 THEN [out |-> "InvalidSelection", role |-> NoRole]
  ELSE IF i \in 0..(Len(roles) - 1) THEN [out |-> "ok", role |-> roles[i + 1]]
  ELSE [out |-> "panic", role |-> NoRole]

\* main.go 206-211: the range check and roles[i-1]; an index outside the
\* slice is a run-time panic
SelectRole(roles, i) ==
  IF i > Len(roles) + 1 THEN [out |-> "InvalidSelection", role |-> NoRole]
  ELSE IF (i - 1) \in 0..(Len(roles) - 1) THEN [out |-> "ok", role |-> roles[(i - 1) + 1]]
  ELSE [out |-> "panic", role |-> NoRole]

ResolveRoleFallThrough(cfg, sec, roles, input) ==
  IF HasKey(sec, "assume_role") /\ ScanRoles(roles, sec["assume_role"]) # NoRole
  THEN Resolution("ok", ScanRoles(roles, sec["assume_role"]), FALSE, <<>>)
  ELSE IF Len(roles) = 1 THEN Resolution("ok", roles[1], FALSE, <<>>)
  ELSE LET sc == ScanInt(input) IN
    IF sc.err THEN Resolution("InvalidSelection", NoRole, TRUE, MenuLines(cfg, roles))
    ELSE Resolution(SelectRole(roles, sc.val).out, SelectRole(roles, sc.val).role,
                    TRUE, MenuLines(cfg, roles))

ResolveRoleAlwaysAsk(cfg, sec, roles, input) ==
  IF HasKey(sec, "assume_role")
  THEN LET r == ScanRoles(roles, sec["assume_role"]) IN
       IF r = NoRole THEN Resolution("RoleNotFound", NoRole, FALSE, <<>>)
       ELSE Resolution("ok", r, FALSE, <<>>)
  ELSE LET sc == ScanInt(input) IN
    IF sc.err THEN Resolution("InvalidSelection", NoRole, TRUE, MenuLines(cfg, roles))
    ELSE Resolution(SelectRole(roles, sc.val).out, SelectRole(roles, sc.val).role,
                    TRUE, MenuLines(cfg, roles))

\* main.go 164-213: the role to assume, or how resolution ends; read tells
\* whether the selection was read from standard input, menu is what was printed
ResolveRole(cfg, sec, roles, input) ==
  IF HasKey(sec, "assume_role")
  THEN LET r == ScanRoles(roles, sec["assume_role"]) IN
       IF r = NoRole THEN Resolution("RoleNotFound", NoRole, FALSE, <<>>)
       ELSE Resolution("ok", r, FALSE, <<>>)
  ELSE IF Len(roles) = 1 THEN Resolution("ok", roles[1], FALSE, <<>>)
  ELSE LET sc == ScanInt(input) IN
    IF sc.err THEN Resolution("InvalidSelection", NoRole, TRUE, MenuLines(cfg, roles))
    ELSE Resolution(SelectRole(roles, sc.val).out, SelectRole(roles, sc.val).role,
                    TRUE, MenuLines(cfg, roles))

\* ------------------------------------------------------------ the state
VARIABLES
  pc,            \* the step main is about to run; "exit" once the process ended
  status,        \* the exit status, -1 while running
  err,           \* the kind of the error that ended the invocation, "" if none
  account,       \* c.account
  profile,       \* c.profile
  cfg,           \* c.cfg, the loaded configuration
  acct,          \* the name of the matched account section
  roles,         \* the list GetRoles returned
  rolesErr,      \* GetRoles returned an error
  roleToAssume,
  selRead,       \* the selection was read from standard input
  selection,     \* the line read
  menu,          \* the menu printed
  creds,         \* what AssumeRole returned
  trace,         \* the steps run so far, in order
  disk,          \* ~/.aws/credentials
  ncalls,        \* number of WriteAWSCredentials calls so far
  last,          \* the last WriteAWSCredentials call
  prev           \* the call before it

runVars == <<pc, status, err, account, profile, cfg, acct, roles, rolesErr,
             roleToAssume, selRead, selection, menu, creds, trace>>
storeVars == <<disk, ncalls, last, prev>>
vars == <<runVars, storeVars>>


NoCall == [p |-> "", c |-> NoCreds, err |-> "none", before |-> Missing, after |-> Missing]

CallRecord(d, c, p, fault) ==
  LET w == WriteAWSCredentials(d, c, p, fault) IN
  [p |-> p, c |-> c, err |-> w.err, before |-> d, after |-> w.disk]

Ran(step) == \E i \in 1..Len(trace) : trace[i] = step

Init ==
  /\ pc = "flags"
  /\ status = -1
  /\ err = ""
  /\ account = ""
  /\ profile = "default"
  /\ cfg = Unloadable
  /\ acct = ""
  /\ roles = <<>>
  /\ rolesErr = FALSE
  /\ roleToAssume = NoRole
  /\ selRead = FALSE
  /\ selection = <<>>
  /\ menu = <<>>
  /\ creds = NoCreds
  /\ trace = <<>>
  /\ disk \in PipelineDisks
  /\ ncalls = 0
  /\ last = NoCall
  /\ prev = NoCall

\* os.Exit(code), a panic (status 2), or the return from main (status 0)
Halt(code, e) == pc' = "exit" /\ status' = code /\ err' = e
Goto(step) == pc' = step /\ status' = status /\ err' = err
Step(name) == trace' = Append(trace, name)

\* main.go 88-102: the flags, -version, the default account name
ParseFlags ==
  /\ pc = "flags"
  /\ \E how \in {"usage", "version", "run"}, a \in AccountFlags, p \in Profiles :
       IF how = "usage" THEN Halt(1, "Usage") /\ UNCHANGED <<account, profile>>
       ELSE IF how = "version" THEN Halt(0, "") /\ UNCHANGED <<account, profile>>
       ELSE /\ Goto("loadConfigurationFile")
            /\ account' = (IF a = "" THEN "default" ELSE a)
            /\ profile' = p
  /\ UNCHANGED <<cfg, acct, roles, rolesErr, roleToAssume, selRead, selection, menu,
                 creds, trace, storeVars>>

\* main.go 104-107 and loadConfigurationFile
LoadConfigurationFile ==
  /\ pc = "loadConfigurationFile"
  /\ Step("loadConfigurationFile")
  /\ \E path \in {"", "/etc/federatedcli"}, userOk \in BOOLEAN, file \in ConfigFiles :
       IF path = "" /\ ~userOk THEN Halt(1, "UserError") /\ cfg' = cfg
       ELSE IF file = Unloadable THEN Halt(1, "ConfigError") /\ cfg' = cfg
       ELSE Goto("matchAccount") /\ cfg' = file
  /\ UNCHANGED <<account, profile, acct, roles, rolesErr, roleToAssume, selRead,
                 selection, menu, creds, storeVars>>

\* main.go 109-113
MatchAccount ==
  /\ pc = "matchAccount"
  /\ Step("matchAccount")
  /\ LET m == matchAccount(cfg, account) IN
       IF ~m.found THEN Halt(1, "MissingAccount") /\ acct' = acct
       ELSE Goto("sp_identity_url") /\ acct' = m.name
  /\ UNCHANGED <<account, profile, cfg, roles, rolesErr, roleToAssume, selRead,
                 selection, menu, creds, storeVars>>

\* main.go 115-119
CheckIdentityURL ==
  /\ pc = "sp_identity_url"
  /\ Step("sp_identity_url")
  /\ IF ~HasKey(cfg[acct], "sp_identity_url") THEN Halt(1, "MissingRequiredKey")
     ELSE Goto("username")
  /\ UNCHANGED <<account, profile, cfg, acct, roles, rolesErr, roleToAssume, selRead,
                 selection, menu, creds, storeVars>>

\* main.go 121-130: the user name, configured or read from standard input
\* (a read error is ignored)
GetUsername ==
  /\ pc = "username"
  /\ Step("username")
  /\ Goto("password")
  /\ UNCHANGED <<account, profile, cfg, acct, roles, rolesErr, roleToAssume, selRead,
                 selection, menu, creds, storeVars>>

\* main.go 132-146: the password, configured or read with gopass
GetPassword ==
  /\ pc = "password"
  /\ Step("password")
  /\ \E ok \in BOOLEAN :
       IF ~HasKey(cfg[acct], "password") /\ ~ok THEN Halt(1, "PasswordError")
       ELSE Goto("New")
  /\ UNCHANGED <<account, profile, cfg, acct, roles, rolesErr, roleToAssume, selRead,
                 selection, menu, creds, storeVars>>

\* main.go 148-152
New ==
  /\ pc = "New"
  /\ Step("New")
  /\ \E ok \in BOOLEAN : IF ok THEN Goto("Login") ELSE Halt(1, "InitFailure")
  /\ UNCHANGED <<account, profile, cfg, acct, roles, rolesErr, roleToAssume, selRead,
                 selection, menu, creds, storeVars>>

\* main.go 154-157
Login ==
  /\ pc = "Login"
  /\ Step("Login")
  /\ \E ok \in BOOLEAN : IF ok THEN Goto("GetRoles") ELSE Halt(1, "AuthFailure")
  /\ UNCHANGED <<account, profile, cfg, acct, roles, rolesErr, roleToAssume, selRead,
                 selection, menu, creds, storeVars>>

\* main.go 159-162: an error is printed and main goes on
GetRoles ==
  /\ pc = "GetRoles"
  /\ Step("GetRoles")
  /\ \E ok \in BOOLEAN, rs \in RoleLists :
       /\ roles' = GetRolesResult(ok, rs)
       /\ rolesErr' = ~ok
  /\ Goto("resolve")
  /\ UNCHANGED <<account, profile, cfg, acct, roleToAssume, selRead, selection, menu,
                 creds, storeVars>>

\* main.go 164-213
Resolve ==
  /\ pc = "resolve"
  /\ Step("resolve")
  /\ \E input \in Inputs :
       LET r == ResolveRole(cfg, cfg[acct], roles, input) IN
       /\ roleToAssume' = r.role
       /\ selRead' = r.read
       /\ selection' = (IF r.read THEN input ELSE <<>>)
       /\ menu' = r.menu
       /\ IF r.out = "ok" THEN Goto("AssumeRole")
          ELSE IF r.out = "panic" THEN Halt(2, "panic")
          ELSE Halt(1, r.out)
  /\ UNCHANGED <<account, profile, cfg, acct, roles, rolesErr, creds, storeVars>>

AssumeRoleLenient ==
  /\ pc = "AssumeRole"
  /\ Step("AssumeRole")
  /\ \E ok \in BOOLEAN, c \in CredsSet :
       IF ok THEN Goto("WriteAWSCredentials") /\ creds' = c
       ELSE Goto("WriteAWSCredentials") /\ creds' = creds
  /\ UNCHANGED <<account, profile, cfg, acct, roles, rolesErr, roleToAssume, selRead,
                 selection, menu, storeVars>>

\* main.go 215-221
AssumeRole ==
  /\ pc = "AssumeRole"
  /\ Step("AssumeRole")
  /\ \E ok \in BOOLEAN, c \in CredsSet :
       IF ok THEN Goto("WriteAWSCredentials") /\ creds' = c
       ELSE Halt(1, "AssumeFailure") /\ creds' = creds
  /\ UNCHANGED <<account, profile, cfg, acct, roles, rolesErr, roleToAssume, selRead,
                 selection, menu, storeVars>>

\* main.go 223-231
WriteCredentials ==
  /\ pc = "WriteAWSCredentials"
  /\ Step("WriteAWSCredentials")
  /\ \E fault \in CallFaults(disk, creds, profile) :
       LET rec == CallRecord(disk, creds, profile, fault) IN
       /\ disk' = rec.after
       /\ last' = rec
       /\ prev' = last
       /\ ncalls' = ncalls + 1
       /\ IF rec.err # "" THEN Halt(1, "CredentialWriteFailure") ELSE Halt(0, "")
  /\ UNCHANGED <<account, profile, cfg, acct, roles, rolesErr, roleToAssume, selRead,
                 selection, menu, creds>>

Next ==
  \/ ParseFlags
  \/ LoadConfigurationFile
  \/ MatchAccount
  \/ CheckIdentityURL
  \/ GetUsername
  \/ GetPassword
  \/ New
  \/ Login
  \/ GetRoles
  \/ Resolve
  \/ AssumeRole
  \/ WriteCredentials

Spec == Init /\ [][Next]_vars

\* ---------------------------------------------- WriteAWSCredentials on its own
InitStore ==
  /\ pc = "store"
  /\ status = -1
  /\ err = ""
  /\ account = ""
  /\ profile = "default"
  /\ cfg = Unloadable
  /\ acct = ""
  /\ roles = <<>>
  /\ rolesErr = FALSE
  /\ roleToAssume = NoRole
  /\ selRead = FALSE
  /\ selection = <<>>
  /\ menu = <<>>
  /\ creds = NoCreds
  /\ trace = <<>>
  /\ disk \in InitialDisks
  /\ ncalls = 0
  /\ last = NoCall
  /\ prev = NoCall

\* one call of WriteAWSCredentials(c, p), as an invocation that got
\* credentials c makes it for -profile p
Upsert ==
  /\ pc = "store"
  /\ ncalls < MaxCalls
  /\ \E p \in Profiles, c \in CredsSet :
       \E fault \in CallFaults(disk, c, p) :
         LET rec == CallRecord(disk, c, p, fault) IN
         /\ disk' = rec.after
         /\ last' = rec
         /\ prev' = last
         /\ ncalls' = ncalls + 1
  /\ UNCHANGED runVars

NextStore == Upsert

SpecStore == InitStore /\ [][NextStore]_vars

\* ------------------------------------------------------------ properties
InList(r, rs) == \E i \in 1..Len(rs) : rs[i] = r
Resolved == Ran("resolve")
Configured == HasKey(cfg[acct], "assume_role")
Wanted == cfg[acct]["assume_role"]
AtAssumeRole == pc = "AssumeRole" \/ Ran("AssumeRole")
NothingWritten == ~Ran("WriteAWSCredentials") /\ ncalls = 0 /\ disk \in PipelineDisks

\* the line typed is a decimal integer, and its value
IsIntegerText(s) ==
  /\ s # <<>>
  /\ LET body == IF Head(s) = "-" THEN Tail(s) ELSE s IN
       body # <<>> /\ \A i \in 1..Len(body) : body[i] \in Digits
IntegerOf(s) ==
  IF Head(s) = "-" THEN 0 - DecimalValue(Tail(s), 0) ELSE DecimalValue(s, 0)
ValidSelection(s, n) == IsIntegerText(s) /\ IntegerOf(s) \in 1..n

\* C1: a configured assume_role that is in no position of the role list ends
\* the run with RoleNotFound, whatever the length of the list: no role is
\* taken from the list, no menu is printed, no selection is read, AssumeRole
\* is not called and nothing is written.
C1_RoleNotFound ==
  (Resolved /\ Configured /\ ~InList(Wanted, roles)) =>
     /\ pc = "exit" /\ status = 1 /\ err = "RoleNotFound"
     /\ roleToAssume = NoRole
     /\ ~selRead /\ selection = <<>> /\ menu = <<>>
     /\ ~Ran("AssumeRole")
     /\ NothingWritten

C1_Witness ==
  /\ Resolved /\ Configured /\ ~InList(Wanted, roles)
  /\ Len(roles) = 1
  /\ err = "RoleNotFound"

\* C2: without assume_role and with a role list of length n # 1, every line
\* typed that is not an integer in 1..n ends the run with InvalidSelection:
\* no role, no AssumeRole, nothing written.
C2_InvalidSelection ==
  (Resolved /\ ~Configured /\ Len(roles) # 1 /\ ~ValidSelection(selection, Len(roles))) =>
     /\ pc = "exit" /\ status = 1 /\ err = "InvalidSelection"
     /\ roleToAssume = NoRole
     /\ ~Ran("AssumeRole")
     /\ NothingWritten

\* the sections of a document by name
Names(doc) == {doc[i].name : i \in 1..Len(doc)}
SectionOf(doc, name) == doc[SecIndex(doc, name)]
KeysOf(sec) == {sec.keys[i].k : i \in 1..Len(sec.keys)}
ValueOf(sec, k) == sec.keys[KeyIndex(sec.keys, k)].v
Held(d) == Load(d).doc

\* C3: after a successful WriteAWSCredentials into profile P every other
\* section of the file has the keys and values it had, and in P every key
\* but the three managed ones has the value it had; no other key appears.
C3_Frame ==
  (ncalls > 0 /\ last.err = "") =>
     LET old == Held(last.before)
         new == Held(last.after)
         P == last.p IN
     /\ ~Load(last.after).err
     /\ Names(new) = Names(old) \cup {P}
     /\ \A s \in Names(old) \ {P} : SectionOf(new, s) = SectionOf(old, s)
     /\ LET was == IF P \in Names(old) THEN KeysOf(SectionOf(old, P)) ELSE {} IN
        /\ KeysOf(SectionOf(new, P)) = was \cup ManagedKeys
        /\ \A k \in was \ ManagedKeys :
             ValueOf(SectionOf(new, P), k) = ValueOf(SectionOf(old, P), k)

C3_Witness ==
  /\ ncalls > 0 /\ last.err = ""
  /\ last.p \in Names(Held(last.before))
  /\ "region" \in KeysOf(SectionOf(Held(last.before), last.p))
  /\ ValueOf(SectionOf(Held(last.after), last.p), "region") = "eu-west-1"
  /\ "other" \in Names(Held(last.after))

HoldsCredentials(d, P, c) ==
  /\ ~Load(d).err
  /\ P \in Names(Held(d))
  /\ ManagedKeys \subseteq KeysOf(SectionOf(Held(d), P))
  /\ ValueOf(SectionOf(Held(d), P), "aws_access_key_id") = c.AccessKeyId
  /\ ValueOf(SectionOf(Held(d), P), "aws_secret_access_key") = c.SecretAccessKey
  /\ ValueOf(SectionOf(Held(d), P), "aws_session_token") = c.SessionToken

\* C4: every WriteAWSCredentials call either succeeds and leaves the three
\* managed keys of the profile set to the credentials, or fails and leaves
\* the file exactly as it was; a missing file is never created.
C4_NoPartialWrite ==
  (ncalls > 0) =>
     /\ \/ last.err = "" /\ HoldsCredentials(last.after, last.p, last.c)
        \/ last.err # "" /\ last.after = last.before
     /\ ~last.before.exists => ~last.after.exists

\* C5: a configured assume_role equal to a member of the role list resolves
\* to that member, whatever the length of the list, with no menu and no
\* selection read.
C5_ConfiguredRole ==
  (Resolved /\ Configured /\ InList(Wanted, roles)) =>
     /\ roleToAssume = Wanted
     /\ InList(roleToAssume, roles)
     /\ ~selRead /\ selection = <<>> /\ menu = <<>>
     /\ err \notin {"RoleNotFound", "InvalidSelection", "panic"}
     /\ AtAssumeRole

C5_Witness ==
  /\ Resolved /\ Configured /\ InList(Wanted, roles)
  /\ Len(roles) = 3 /\ roles[1] # Wanted /\ roles[2] # Wanted
  /\ pc = "AssumeRole"

\* C6: without assume_role a role list of one element resolves to that
\* element and the run goes on to AssumeRole; no menu, no selection read.
C6_SingleRole ==
  (Resolved /\ ~Configured /\ Len(roles) = 1) =>
     /\ roleToAssume = roles[1]
     /\ ~selRead /\ selection = <<>> /\ menu = <<>>
     /\ AtAssumeRole

C6_Witness ==
  /\ Resolved /\ ~Configured /\ Len(roles) = 1
  /\ pc = "AssumeRole" /\ roleToAssume = ArnRead

Count(seq, Test(_)) == Cardinality({i \in 1..Len(seq) : Test(seq[i])})

\* C7: after two successful WriteAWSCredentials calls in a row for the same
\* profile P the file has one section P with one entry for each managed key,
\* holding the second call's credentials; with the same credentials twice the
\* second call leaves the file as the first left it.
C7_Idempotent ==
  (ncalls > 1 /\ prev.err = "" /\ last.err = "" /\ prev.p = last.p) =>
     LET P == last.p
         doc == Held(disk) IN
     /\ disk = last.after /\ last.before = prev.after
     /\ Count(disk.lines, LAMBDA ln : ln = <<"sec", P>>) = 1
     /\ Count(doc, LAMBDA sec : sec.name = P) = 1
     /\ \A k \in ManagedKeys :
          /\ Count(SectionOf(doc, P).keys, LAMBDA e : e.k = k) = 1
          /\ Count(disk.lines, LAMBDA ln : Len(ln) = 3 /\ ln[2] = k)
               = Count(prev.after.lines, LAMBDA ln : Len(ln) = 3 /\ ln[2] = k)
     /\ HoldsCredentials(disk, P, last.c)
     /\ (prev.c = last.c) => disk = prev.after

C7_Witness ==
  /\ ncalls > 1 /\ prev.err = "" /\ last.err = "" /\ prev.p = last.p
  /\ prev.c = Creds1 /\ last.c = Creds2
  /\ HoldsCredentials(disk, last.p, Creds2)

\* C8: a GetRoles error does not end the run; resolution runs on an empty
\* role list and ends in RoleNotFound (assume_role configured) or
\* InvalidSelection (not configured) whatever is typed; AssumeRole is not
\* called and nothing is written.
C8_SoftFail ==
  /\ (rolesErr /\ ~Resolved) => (pc = "resolve" /\ roles = <<>> /\ err = "")
  /\ (rolesErr /\ Resolved) =>
       /\ roles = <<>>
       /\ pc = "exit" /\ status = 1
       /\ err = (IF Configured THEN "RoleNotFound" ELSE "InvalidSelection")
       /\ ~Ran("AssumeRole")
       /\ NothingWritten

\* the steps the pipeline names, in order
ClaimedOrder ==
  << "loadConfigurationFile", "matchAccount", "sp_identity_url", "New", "Login",
     "GetRoles", "resolve", "AssumeRole", "WriteAWSCredentials" >>
Claimed(step) == \E i \in 1..Len(ClaimedOrder) : ClaimedOrder[i] = step
IsPrefix(a, b) == Len(a) <= Len(b) /\ \A i \in 1..Len(a) : a[i] = b[i]
\* the step at which each kind of error ends the run
StepOf(e) ==
  CASE e \in {"UserError", "ConfigError"} -> "loadConfigurationFile"
    [] e = "MissingAccount" -> "matchAccount"
    [] e = "MissingRequiredKey" -> "sp_identity_url"
    [] e = "PasswordError" -> "password"
    [] e = "InitFailure" -> "New"
    [] e = "AuthFailure" -> "Login"
    [] e \in {"RoleNotFound", "InvalidSelection", "panic"} -> "resolve"
    [] e = "AssumeFailure" -> "AssumeRole"
    [] OTHER -> "WriteAWSCredentials"

InOrder == IsPrefix(SelectSeq(trace, Claimed), ClaimedOrder)
FailFast ==
  (err # "") =>
     /\ pc = "exit" /\ status \notin {-1, 0}
     /\ IF err = "Usage" THEN trace = <<>>
        ELSE trace # <<>> /\ trace[Len(trace)] = StepOf(err)
WriteAfterAssume ==
  /\ (ncalls > 0) <=> Ran("WriteAWSCredentials")
  /\ ncalls = 0 => disk \in PipelineDisks
  /\ Ran("WriteAWSCredentials") =>
       /\ Ran("AssumeRole") /\ creds \in CredsSet /\ roleToAssume # NoRole
       /\ last.c = creds /\ last.p = profile
  /\ (Ran("GetRoles") /\ rolesErr /\ pc # "exit") => pc = "resolve"
SuccessfulWrite == Ran("WriteAWSCredentials") /\ last.err = "" /\ disk = last.after

\* C9 as stated: the steps run at most once each and in the pipeline's order;
\* every failure but that of GetRoles ends the run at once with a status
\* other than 0; the file is written only after AssumeRole succeeded; status
\* 0 is reached only after a successful write.
C9_Original ==
  /\ InOrder
  /\ FailFast
  /\ WriteAfterAssume
  /\ status = 0 => SuccessfulWrite

\* C9 as amended: the same, but status 0 is also the status of a -version
\* run, which ends before any step of the pipeline.
C9_Pipeline ==
  /\ InOrder
  /\ FailFast
  /\ WriteAfterAssume
  /\ status = 0 => (SuccessfulWrite \/ trace = <<>>)

C9_Witness ==
  /\ pc = "exit" /\ status = 0 /\ SuccessfulWrite
  /\ Len(SelectSeq(trace, Claimed)) = Len(ClaimedOrder)
  /\ HoldsCredentials(disk, profile, creds)

\* C10: the role handed to AssumeRole is not empty and is a member of the
\* role list GetRoles returned in this run; when selection k was read it is
\* the k-th role of the list, the one the menu showed as line k.
C10_AuthorizedRole ==
  AtAssumeRole =>
     /\ roleToAssume # NoRole
     /\ InList(roleToAssume, roles)
     /\ selRead =>
          LET k == ScanInt(selection).val IN
          /\ ~ScanInt(selection).err
          /\ k \in 1..Len(roles)
          /\ roles[k] = roleToAssume
          /\ Len(menu) = Len(roles)
          /\ menu[k].id = k /\ menu[k].role = roleToAssume

C10_Witness ==
  /\ Ran("AssumeRole") /\ selRead
  /\ selection = <<"2">> /\ roles = <<ArnAdmin, ArnRead, ArnAdmin>>
  /\ roleToAssume = ArnRead
====
